---- MODULE Spec2Model ----
(***************************************************************************)
(* Contact book (src/main.py): field validators, Record, AddressBook and   *)
(* the upcoming-birthdays query.  Python strings are modelled as sequences *)
(* of one-character strings, dates as <<year, month, day>> tuples (the     *)
(* order Python compares them in), the dict self.data as the sequence of   *)
(* its records in insertion order.                                         *)
(***************************************************************************)
EXTENDS Integers, Sequences, FiniteSets, TLC

VARIABLES data, last

vars == <<data, last>>

\* Largest number of phones held by the whole book in the explored states.
MaxPhones == 3

\* ---------------------------------------------------------------- strings

Digits == {"0", "1", "2", "3", "4", "5", "6", "7", "8", "9"}

Letters ==
    {"a", "b", "c", "d", "e", "f", "g", "h", "i", "j", "k", "l", "m",
     "n", "o", "p", "q", "r", "s", "t", "u", "v", "w", "x", "y", "z",
     "A", "B", "C", "D", "E", "F", "G", "H", "I", "J", "K", "L", "M",
     "N", "O", "P", "Q", "R", "S", "T", "U", "V", "W", "X", "Y", "Z"}

\* The value None, distinct from every string (strings hold single characters).
PyNone == <<"None">>

\* str.isalpha(): non-empty and every character a letter.
isalpha(s) == Len(s) > 0 /\ \A i \in 1..Len(s) : s[i] \in Letters

\* str.isdigit(): non-empty and every character a digit.
isdigit(s) == Len(s) > 0 /\ \A i \in 1..Len(s) : s[i] \in Digits

\* Name.validate_name: TRUE when no ValidationException is raised.
validate_name(value) == isalpha(value)

\* Phone.validate_phone: TRUE when no ValidationException is raised.
validate_phone(value) == ~(~isdigit(value) \/ Len(value) # 10)

\* Python truthiness of an argument that is None or a string.
Truthy(x) == x # PyNone /\ x # <<>>

RECURSIVE JoinFrom(_, _, _)
\* sep.join(items), from position i on.
JoinFrom(items, sep, i) ==
    IF i > Len(items) THEN <<>>
    ELSE IF i = Len(items) THEN items[i]
    ELSE items[i] \o sep \o JoinFrom(items, sep, i + 1)

Join(items, sep) == JoinFrom(items, sep, 1)

\* ---------------------------------------------------------------- Record

NoBirthday == <<>>

\* Record.__init__ after the name passed validation.
Record(name) == [name |-> name, phones |-> <<>>, birthday |-> NoBirthday]

\* Record.add_phone as it would be if it skipped a phone the record holds.
add_phone_dedup(phones, phone) ==
    IF ~validate_phone(phone)
    THEN [raised |-> "ValidationException", phones |-> phones]
    ELSE IF \E j \in 1..Len(phones) : phones[j] = phone
    THEN [raised |-> "none", phones |-> phones]
    ELSE [raised |-> "none", phones |-> Append(phones, phone)]

\* Record.add_phone on a phone list: the new list, and whether Phone() raised.
add_phone(phones, phone) ==
    IF validate_phone(phone)
    THEN [raised |-> "none", phones |-> Append(phones, phone)]
    ELSE [raised |-> "ValidationException", phones |-> phones]

RECURSIVE edit_loop(_, _, _, _)
\* The for loop of Record.edit_phone, at list index i.
edit_loop(phones, i, old_phone, new_phone) ==
    IF i > Len(phones) THEN phones
    ELSE IF phones[i] = old_phone
         THEN edit_loop([phones EXCEPT ![i] = new_phone], i + 1,
                        old_phone, new_phone)
         ELSE edit_loop(phones, i + 1, old_phone, new_phone)

\* Record.edit_phone as it would be if it added the new phone when no phone
\* equals the old one.
edit_phone_upsert(phones, old_phone, new_phone) ==
    IF \E j \in 1..Len(phones) : phones[j] = old_phone
    THEN edit_loop(phones, 1, old_phone, new_phone)
    ELSE Append(phones, new_phone)

\* Record.edit_phone.
edit_phone(phones, old_phone, new_phone) ==
    edit_loop(phones, 1, old_phone, new_phone)

\* list.remove(p) of the Phone object at index i (Phone has no __eq__).
RemoveAt(phones, i) ==
    [j \in 1..(Len(phones) - 1) |-> IF j < i THEN phones[j] ELSE phones[j + 1]]

RECURSIVE remove_loop(_, _, _)
\* The for loop of Record.remove_phone: the list iterator keeps its index
\* while the list shrinks under it.
remove_loop(phones, i, phone) ==
    IF i > Len(phones) THEN phones
    ELSE IF phones[i] = phone
         THEN remove_loop(RemoveAt(phones, i), i + 1, phone)
         ELSE remove_loop(phones, i + 1, phone)

\* Record.remove_phone.
remove_phone(phones, phone) == remove_loop(phones, 1, phone)

\* ----------------------------------------------------------- AddressBook

\* Keys of the dict.
Names(d) == {d[i].name : i \in 1..Len(d)}

\* Position of a key in the dict (0 when absent).
IndexOf(d, name) ==
    IF name \in Names(d)
    THEN CHOOSE i \in 1..Len(d) : d[i].name = name
    ELSE 0

\* AddressBook.find: the position of the record, 0 for None.
find(d, name) == IndexOf(d, name)

\* AddressBook.add_record: a new key goes last, an existing key is replaced.
add_record(d, record) ==
    IF IndexOf(d, record.name) = 0
    THEN Append(d, record)
    ELSE [d EXCEPT ![IndexOf(d, record.name)] = record]

\* AddressBook.add_contact as it would be if the phone were validated before
\* the record is created.
add_contact_validate_first(d, name, phone) ==
    LET found == find(d, name)
        created == found = 0
        d1 == IF created THEN add_record(d, Record(name)) ELSE d
        message == IF created THEN "Contact added." ELSE "Contact updated."
        i == find(d1, name)
    IN  IF created /\ ~validate_name(name)
        THEN [raised |-> "ValidationException", msg |-> "", data |-> d]
        ELSE IF ~Truthy(phone)
        THEN [raised |-> "none", msg |-> message, data |-> d1]
        ELSE IF ~validate_phone(phone)
        THEN [raised |-> "ValidationException", msg |-> "", data |-> d]
        ELSE [raised |-> "none", msg |-> message,
              data |-> [d1 EXCEPT ![i].phones = Append(@, phone)]]

\* AddressBook.add_contact.
add_contact(d, name, phone) ==
    LET found == find(d, name)
        created == found = 0
        d1 == IF created THEN add_record(d, Record(name)) ELSE d
        message == IF created THEN "Contact added." ELSE "Contact updated."
        i == find(d1, name)
        r == add_phone(d1[i].phones, phone)
    IN  IF created /\ ~validate_name(name)
        THEN [raised |-> "ValidationException", msg |-> "", data |-> d]
        ELSE IF ~Truthy(phone)
        THEN [raised |-> "none", msg |-> message, data |-> d1]
        ELSE IF r.raised # "none"
        THEN [raised |-> r.raised, msg |-> "", data |-> d1]
        ELSE [raised |-> "none", msg |-> message,
              data |-> [d1 EXCEPT ![i].phones = r.phones]]

\* AddressBook.change_contact.
change_contact(d, name, old_phone, new_phone) ==
    LET i == find(d, name) IN
    IF i = 0
    THEN [raised |-> "KeyError", msg |-> "", data |-> d]
    ELSE [raised |-> "none", msg |-> "Phone number updated.",
          data |-> [d EXCEPT ![i].phones = edit_phone(@, old_phone, new_phone)]]

\* AddressBook.show_phone.
show_phone(d, name) ==
    LET i == find(d, name) IN
    IF i = 0
    THEN [raised |-> "KeyError", text |-> <<>>]
    ELSE [raised |-> "none", text |-> Join(d[i].phones, <<";", " ">>)]

\* ------------------------------------------------------------------ dates

\* calendar.isleap, as datetime uses it.
IsLeap(y) == y % 4 = 0 /\ (y % 100 # 0 \/ y % 400 = 0)

\* Days in month m of year y.
DaysInMonth(y, m) ==
    IF m = 2 THEN (IF IsLeap(y) THEN 29 ELSE 28)
    ELSE IF m \in {4, 6, 9, 11} THEN 30 ELSE 31

\* The checks datetime.date makes on its fields (ValueError otherwise).
IsValidDate(d) ==
    /\ d[1] >= 1 /\ d[1] <= 9999
    /\ d[2] >= 1 /\ d[2] <= 12
    /\ d[3] >= 1 /\ d[3] <= DaysInMonth(d[1], d[2])

RECURSIVE DaysBeforeMonth(_, _)
\* Days of year y that precede the first day of month m.
DaysBeforeMonth(y, m) ==
    IF m = 1 THEN 0 ELSE DaysBeforeMonth(y, m - 1) + DaysInMonth(y, m - 1)

\* date.toordinal(): 1 for 0001-01-01.
ToOrdinal(d) ==
    LET y == d[1] - 1 IN
    y * 365 + y \div 4 - y \div 100 + y \div 400
    + DaysBeforeMonth(d[1], d[2]) + d[3]

\* date.weekday(): Monday is 0, Sunday is 6.
weekday(d) == (ToOrdinal(d) + 6) % 7

\* (a - b).days
DaysBetween(a, b) == ToOrdinal(a) - ToOrdinal(b)

\* Python compares dates as (year, month, day).
DateLess(a, b) ==
    \/ a[1] < b[1]
    \/ a[1] = b[1] /\ a[2] < b[2]
    \/ a[1] = b[1] /\ a[2] = b[2] /\ a[3] < b[3]

\* The day after d.
NextDay(d) ==
    IF d[3] < DaysInMonth(d[1], d[2]) THEN <<d[1], d[2], d[3] + 1>>
    ELSE IF d[2] < 12 THEN <<d[1], d[2] + 1, 1>>
    ELSE <<d[1] + 1, 1, 1>>

RECURSIVE AddDays(_, _)
\* d + timedelta(days=k), k >= 0.
AddDays(d, k) == IF k = 0 THEN d ELSE AddDays(NextDay(d), k - 1)

\* date.replace(year=y); the result is a date only when IsValidDate holds.
ReplaceYear(d, y) == <<y, d[2], d[3]>>

\* -------------------------------------------------- formatting and parsing

DigitChar(n) == <<"0", "1", "2", "3", "4", "5", "6", "7", "8", "9">>[n + 1]

DigitValue(c) ==
    CHOOSE n \in 0..9 : DigitChar(n) = c

\* %d and %m of strftime: two digits, zero padded.
Pad2(n) == <<DigitChar(n \div 10), DigitChar(n % 10)>>

\* %Y of strftime: four digits, zero padded.
Pad4(n) ==
    <<DigitChar(n \div 1000), DigitChar((n \div 100) % 10),
      DigitChar((n \div 10) % 10), DigitChar(n % 10)>>

\* date.strftime("%d.%m.%Y")
FormatDMY(d) == Pad2(d[3]) \o <<".">> \o Pad2(d[2]) \o <<".">> \o Pad4(d[1])

\* date.strftime("%Y.%m.%d")
FormatYMD(d) == Pad4(d[1]) \o <<".">> \o Pad2(d[2]) \o <<".">> \o Pad2(d[3])

RECURSIVE ToInt(_)
\* int() of a string of digits.
ToInt(s) ==
    IF Len(s) = 0 THEN 0
    ELSE 10 * ToInt(SubSeq(s, 1, Len(s) - 1)) + DigitValue(s[Len(s)])

\* Positions of the "." characters of s.
Dots(s) == {i \in 1..Len(s) : s[i] = "."}

\* A field strptime accepts for %d or %m: one or two digits, or a space and
\* a digit, with a value in 1..max.
NumField(f, max) ==
    LET g == IF Len(f) = 2 /\ f[1] = " " THEN <<f[2]>> ELSE f IN
    /\ Len(g) \in {1, 2}
    /\ \A i \in 1..Len(g) : g[i] \in Digits
    /\ ToInt(g) >= 1 /\ ToInt(g) <= max

NumValue(f) == ToInt(IF Len(f) = 2 /\ f[1] = " " THEN <<f[2]>> ELSE f)

\* datetime.strptime(value, "%d.%m.%Y").date(): the date, or the ValueError.
strptime(value) ==
    IF Cardinality(Dots(value)) # 2
    THEN [raised |-> "ValueError", date |-> NoBirthday]
    ELSE
    LET p1 == CHOOSE i \in Dots(value) : \A j \in Dots(value) : i <= j
        p2 == CHOOSE i \in Dots(value) : \A j \in Dots(value) : j <= i
        fd == SubSeq(value, 1, p1 - 1)
        fm == SubSeq(value, p1 + 1, p2 - 1)
        fy == SubSeq(value, p2 + 1, Len(value))
    IN  IF /\ NumField(fd, 31)
           /\ NumField(fm, 12)
           /\ Len(fy) = 4 /\ \A i \in 1..4 : fy[i] \in Digits
           /\ IsValidDate(<<ToInt(fy), NumValue(fm), NumValue(fd)>>)
        THEN [raised |-> "none",
              date |-> <<ToInt(fy), NumValue(fm), NumValue(fd)>>]
        ELSE [raised |-> "ValueError", date |-> NoBirthday]

\* Birthday.__init__: the ValueError becomes a ValidationException.
Birthday(value) ==
    LET r == strptime(value) IN
    IF r.raised = "none" THEN r
    ELSE [raised |-> "ValidationException", date |-> NoBirthday]

\* Record.show_birthday.
show_birthday(rec) ==
    IF rec.birthday # NoBirthday THEN FormatDMY(rec.birthday)
    ELSE <<"Birthday not set">>

\* --------------------------------------------------- upcoming birthdays

\* Lines 109-112 as they would be if a Saturday moved one day on.
congratulation_date_next_day(this_year_birthday) ==
    IF weekday(this_year_birthday) \in {5, 6}
    THEN AddDays(this_year_birthday, 1)
    ELSE this_year_birthday

\* Lines 109-112: a Saturday moves two days on, a Sunday one day.
congratulation_date(this_year_birthday) ==
    IF weekday(this_year_birthday) = 5 THEN AddDays(this_year_birthday, 2)
    ELSE IF weekday(this_year_birthday) = 6 THEN AddDays(this_year_birthday, 1)
    ELSE this_year_birthday

\* Lines 114-118: the dictionary appended for a record.
Entry(name, this_year_birthday) ==
    [name |-> name,
     birthday |-> FormatDMY(congratulation_date(this_year_birthday)),
     congratulation_date |-> FormatYMD(congratulation_date(this_year_birthday))]

RECURSIVE upcoming_loop(_, _, _, _)
\* The for loop of get_upcoming_birthdays at record i, with the list built
\* so far; a ValueError of date.replace leaves the function at once.
upcoming_loop(d, today, i, upcoming_birthdays) ==
    IF i > Len(d)
    THEN [raised |-> "none", entries |-> upcoming_birthdays]
    ELSE IF d[i].birthday = NoBirthday
    THEN upcoming_loop(d, today, i + 1, upcoming_birthdays)
    ELSE
    LET birthday == d[i].birthday
        first == ReplaceYear(birthday, today[1])
        rolled == DateLess(first, today)
        this_year_birthday ==
            IF rolled THEN ReplaceYear(first, today[1] + 1) ELSE first
        days == DaysBetween(this_year_birthday, today)
    IN  IF ~IsValidDate(first) \/ ~IsValidDate(this_year_birthday)
        THEN [raised |-> "ValueError", entries |-> <<>>]
        ELSE IF 0 <= days /\ days <= 7
        THEN upcoming_loop(d, today, i + 1,
                 Append(upcoming_birthdays,
                        Entry(d[i].name, this_year_birthday)))
        ELSE upcoming_loop(d, today, i + 1, upcoming_birthdays)

\* AddressBook.get_upcoming_birthdays, with datetime.now().date() = today.
get_upcoming_birthdays(d, today) == upcoming_loop(d, today, 1, <<>>)

\* handle_add_birthday without its wrapper: find the record, set the birthday.
add_birthday(d, name, date) ==
    LET i == find(d, name)
        b == Birthday(date)
    IN  IF i = 0 THEN [raised |-> "KeyError", msg |-> "", data |-> d]
        ELSE IF b.raised # "none"
        THEN [raised |-> b.raised, msg |-> "", data |-> d]
        ELSE [raised |-> "none", msg |-> "Birthday added",
              data |-> [d EXCEPT ![i].birthday = b.date]]

\* ------------------------------------------------------------ call inputs

Ann == <<"A", "n", "n">>
Bob == <<"B", "o", "b">>

\* Names the callers pass: two valid ones and one with a digit.
NameInputs == {Ann, Bob, <<"R", "2">>}

V1 == <<"1", "2", "3", "4", "5", "6", "7", "8", "9", "0">>
V2 == <<"0", "0", "0", "0", "0", "0", "0", "0", "0", "0">>

\* Phones the callers pass: two valid ones and one of three digits.
PhoneInputs == {V1, V2, <<"1", "2", "3">>}

\* add_contact is also called with the empty string for a phone.
AddContactPhones == PhoneInputs \cup {<<>>}

\* Values of datetime.now().date() the query is run on: a Monday, a
\* Saturday, days before and after 29 February in leap and common years,
\* and the end of a year.
Todays ==
    {<<2024, 6, 10>>, <<2024, 6, 8>>, <<2023, 2, 22>>, <<2024, 2, 25>>,
     <<2024, 3, 5>>, <<2024, 12, 28>>}

\* Birthday texts the callers pass.
BirthdayInputs ==
    {<<"1", "2", ".", "0", "6", ".", "1", "9", "9", "0">>,
     <<"1", "5", ".", "0", "6", ".", "1", "9", "9", "0">>,
     <<"1", "6", ".", "0", "6", ".", "1", "9", "9", "0">>,
     <<"9", ".", "6", ".", "1", "9", "9", "0">>,
     <<"2", "9", ".", "0", "2", ".", "2", "0", "0", "0">>,
     <<"2", "7", ".", "0", "2", ".", "1", "9", "9", "0">>,
     <<"0", "2", ".", "0", "1", ".", "1", "9", "8", "5">>,
     <<"3", "0", ".", "0", "2", ".", "1", "9", "9", "0">>}

\* --------------------------------------------------------------- the state

RECURSIVE PhoneCount(_, _)
PhoneCount(d, i) ==
    IF i > Len(d) THEN 0 ELSE Len(d[i].phones) + PhoneCount(d, i + 1)

\* Number of Phone objects the book holds.
TotalPhones(d) == PhoneCount(d, 1)

\* The outcome of the last call: its name and arguments, the exception it
\* raised ("none" when it returned) and what it returned.
Outcome(op, name, a1, a2, today, raised, msg, text, entries) ==
    [op |-> op, name |-> name, a1 |-> a1, a2 |-> a2, today |-> today,
     raised |-> raised, msg |-> msg, text |-> text, entries |-> entries]

\* book = AddressBook() in main.
Init ==
    /\ data = <<>>
    /\ last = Outcome("init", <<>>, <<>>, <<>>, <<>>, "none", "", <<>>, <<>>)

\* book.add_contact(name, phone)
AddContact ==
    \E name \in NameInputs, phone \in AddContactPhones :
        LET r == add_contact(data, name, phone) IN
        /\ TotalPhones(r.data) <= MaxPhones
        /\ data' = r.data
        /\ last' = Outcome("add_contact", name, phone, <<>>, <<>>,
                           r.raised, r.msg, <<>>, <<>>)

\* book.add_contact(name): the phone keeps its default None.
AddContactNoPhone ==
    \E name \in NameInputs :
        LET r == add_contact(data, name, PyNone) IN
        /\ data' = r.data
        /\ last' = Outcome("add_contact", name, PyNone, <<>>, <<>>,
                           r.raised, r.msg, <<>>, <<>>)

\* book.change_contact(name, old_phone, new_phone)
ChangeContact ==
    \E name \in NameInputs, old_phone \in PhoneInputs, new_phone \in PhoneInputs :
        LET r == change_contact(data, name, old_phone, new_phone) IN
        /\ data' = r.data
        /\ last' = Outcome("change_contact", name, old_phone, new_phone, <<>>,
                           r.raised, r.msg, <<>>, <<>>)

\* book.show_phone(name)
ShowPhone ==
    \E name \in NameInputs :
        LET r == show_phone(data, name) IN
        /\ data' = data
        /\ last' = Outcome("show_phone", name, <<>>, <<>>, <<>>,
                           r.raised, "", r.text, <<>>)

\* book.find(name).add_phone(phone)
AddPhone ==
    \E i \in 1..Len(data), phone \in PhoneInputs :
        LET r == add_phone(data[i].phones, phone) IN
        /\ TotalPhones(data) + 1 <= MaxPhones
        /\ data' = [data EXCEPT ![i].phones = r.phones]
        /\ last' = Outcome("add_phone", data[i].name, phone, <<>>, <<>>,
                           r.raised, "", <<>>, <<>>)

\* book.find(name).edit_phone(old_phone, new_phone)
EditPhone ==
    \E i \in 1..Len(data), old_phone \in PhoneInputs, new_phone \in PhoneInputs :
        /\ data' = [data EXCEPT
                      ![i].phones = edit_phone(@, old_phone, new_phone)]
        /\ last' = Outcome("edit_phone", data[i].name, old_phone, new_phone,
                           <<>>, "none", "", <<>>, <<>>)

\* book.find(name).remove_phone(phone)
RemovePhone ==
    \E i \in 1..Len(data), phone \in PhoneInputs :
        /\ data' = [data EXCEPT ![i].phones = remove_phone(@, phone)]
        /\ last' = Outcome("remove_phone", data[i].name, phone, <<>>, <<>>,
                           "none", "", <<>>, <<>>)

\* handle_add_birthday([name, date], book), without the wrapper, for the
\* dates of a set
AddBirthdayFrom(dates) ==
    \E name \in NameInputs, date \in dates :
        LET r == add_birthday(data, name, date) IN
        /\ data' = r.data
        /\ last' = Outcome("add_birthday", name, date, <<>>, <<>>,
                           r.raised, r.msg, <<>>, <<>>)

AddBirthday == AddBirthdayFrom(BirthdayInputs)

\* The same call where one birthday text is enough.
AddOneBirthday == AddBirthdayFrom({<<"1", "2", ".", "0", "6", ".", "1", "9", "9", "0">>})

\* book.find(name).show_birthday()
ShowBirthday ==
    \E i \in 1..Len(data) :
        /\ data' = data
        /\ last' = Outcome("show_birthday", data[i].name, <<>>, <<>>, <<>>,
                           "none", "", show_birthday(data[i]), <<>>)

\* book.get_upcoming_birthdays() on a day today
UpcomingBirthdays ==
    \E today \in Todays :
        LET r == get_upcoming_birthdays(data, today) IN
        /\ data' = data
        /\ last' = Outcome("get_upcoming_birthdays", <<>>, <<>>, <<>>, today,
                           r.raised, "", <<>>, r.entries)

\* The contact and phone operations.
Next ==
    \/ AddContact
    \/ ChangeContact
    \/ ShowPhone
    \/ AddPhone
    \/ EditPhone
    \/ RemovePhone

Spec == Init /\ [][Next]_vars

\* The birthday operations on contacts without phones.
NextBday ==
    \/ AddContactNoPhone
    \/ AddBirthday
    \/ ShowBirthday
    \/ UpcomingBirthdays

SpecBday == Init /\ [][NextBday]_vars

\* Adding contacts and phones, birthdays set.
NextAdd ==
    \/ AddContact
    \/ AddOneBirthday
    \/ ShowPhone

SpecAdd == Init /\ [][NextAdd]_vars

\* ------------------------------------------------ vocabulary of the claims

\* A string of exactly 10 decimal digits.
IsTenDigits(s) == Len(s) = 10 /\ {s[i] : i \in 1..Len(s)} \subseteq Digits

\* A non-empty string of letters.
IsAlphabetic(s) == s # <<>> /\ {s[i] : i \in 1..Len(s)} \subseteq Letters

\* The record the book holds for a name.
RecordOf(d, name) == CHOOSE r \in {d[i] : i \in 1..Len(d)} : r.name = name

\* The phones the book holds for a name, none when it has no record.
PhonesOf(d, name) ==
    IF name \in Names(d) THEN RecordOf(d, name).phones ELSE <<>>

\* Every record but the one of a name is the same in d and e.
OthersUnchanged(d, e, name) ==
    /\ Names(e) \ {name} = Names(d) \ {name}
    /\ \A o \in Names(d) \ {name} : RecordOf(e, o) = RecordOf(d, o)

\* Position of the first element of s equal to v (0 when there is none).
FirstIndex(s, v) ==
    IF \E i \in 1..Len(s) : s[i] = v
    THEN CHOOSE i \in 1..Len(s) : s[i] = v /\ \A j \in 1..(i - 1) : s[j] # v
    ELSE 0

\* The next occurrence of a birthday: its month and day in today's year, or
\* in the year after when that date is strictly earlier than today.
NextOccurrence(birthday, today) ==
    IF DateLess(<<today[1], birthday[2], birthday[3]>>, today)
    THEN <<today[1] + 1, birthday[2], birthday[3]>>
    ELSE <<today[1], birthday[2], birthday[3]>>

\* A record is due: it has a birthday whose next occurrence is a date 0 to 7
\* days after today.
Due(rec, today) ==
    /\ rec.birthday # NoBirthday
    /\ IsValidDate(NextOccurrence(rec.birthday, today))
    /\ DaysBetween(NextOccurrence(rec.birthday, today), today) \in 0..7

\* The entries of the last query that carry a name.
EntriesFor(name) ==
    {k \in 1..Len(last.entries) : last.entries[k].name = name}

\* The date a year.month.day text denotes.
DateOfYMD(t) ==
    <<ToInt(SubSeq(t, 1, 4)), ToInt(SubSeq(t, 6, 7)), ToInt(SubSeq(t, 9, 10))>>

\* The date a day.month.year text denotes.
DateOfDMY(t) ==
    <<ToInt(SubSeq(t, 7, 10)), ToInt(SubSeq(t, 4, 5)), ToInt(SubSeq(t, 1, 2))>>

\* The weekend shift of the claims: Saturday 2 days, Sunday 1 day.
ShiftOf(d) ==
    CASE weekday(d) = 5 -> 2
      [] weekday(d) = 6 -> 1
      [] OTHER -> 0

Queried == last.op = "get_upcoming_birthdays"

\* ------------------------------------------------------------------ claims

\* C1: for every store and every today, the query holds exactly one entry
\* for each record that is due (birthday set, next occurrence 0 to 7 days
\* after today) and none for every other record.
C1_EntriesExactlyDue ==
    Queried =>
        \A i \in 1..Len(data) :
            Cardinality(EntriesFor(data[i].name))
                = IF Due(data[i], last.today) THEN 1 ELSE 0

\* C2: the congratulation date of every returned entry is the occurrence
\* on Monday to Friday, the occurrence + 2 days on a Saturday, + 1 day on a
\* Sunday; it is never a Saturday or Sunday, it is a Monday after a shift,
\* and it is at most 9 days after today.
C2_CongratulationOnWeekday ==
    Queried /\ last.raised = "none" =>
        \A k \in 1..Len(last.entries) :
            LET e == last.entries[k]
                occ == NextOccurrence(RecordOf(data, e.name).birthday, last.today)
                cd == DateOfYMD(e.congratulation_date)
            IN  /\ weekday(cd) \notin {5, 6}
                /\ DaysBetween(cd, occ) = ShiftOf(occ)
                /\ IsValidDate(cd)
                /\ ShiftOf(occ) # 0 => weekday(cd) = 0
                /\ DaysBetween(cd, last.today) \in 0..9

\* C2 witness: a returned entry whose occurrence is a Saturday 7 days after
\* today, congratulated 9 days after today.
C2_Witness ==
    /\ Queried /\ last.raised = "none"
    /\ \E k \in 1..Len(last.entries) :
          LET occ == NextOccurrence(
                         RecordOf(data, last.entries[k].name).birthday, last.today)
          IN  /\ weekday(occ) = 5
              /\ DaysBetween(occ, last.today) = 7
              /\ DaysBetween(DateOfYMD(last.entries[k].congratulation_date),
                             last.today) = 9

\* C3: every entry carries the unshifted occurrence as day.month.year in its
\* birthday field and the shifted date as year.month.day in its
\* congratulation_date field.
C3_BirthdayFieldUnshifted ==
    Queried /\ last.raised = "none" =>
        \A k \in 1..Len(last.entries) :
            LET e == last.entries[k]
                occ == NextOccurrence(RecordOf(data, e.name).birthday, last.today)
            IN  /\ e.birthday = FormatDMY(occ)
                /\ e.congratulation_date = FormatYMD(AddDays(occ, ShiftOf(occ)))

\* C4: the query returns a result, without raising, for every reachable
\* store and every today.
C4_QueryNeverRaises == Queried => last.raised = "none"

\* C5: every phone held by every record is a string of exactly 10 digits.
C5_PhonesAreTenDigits ==
    \A i \in 1..Len(data) : \A j \in 1..Len(data[i].phones) :
        IsTenDigits(data[i].phones[j])

\* C6: add_contact with a valid name and a valid phone returns "Contact
\* added." exactly when the name had no record and "Contact updated."
\* otherwise, appends the phone to the record's phones without
\* deduplicating, leaves every other record unchanged, and show_phone then
\* gives the former phones and the new one joined by "; ".
C6_AddContactAppends ==
    [][(/\ last'.op = "add_contact"
        /\ IsAlphabetic(last'.name)
        /\ IsTenDigits(last'.a1))
       => /\ last'.raised = "none"
          /\ last'.msg = (IF last'.name \in Names(data)
                          THEN "Contact updated." ELSE "Contact added.")
          /\ last'.name \in Names(data')
          /\ PhonesOf(data', last'.name)
                = PhonesOf(data, last'.name) \o <<last'.a1>>
          /\ OthersUnchanged(data, data', last'.name)
          /\ show_phone(data', last'.name).raised = "none"
          /\ show_phone(data', last'.name).text
                = (IF PhonesOf(data, last'.name) = <<>>
                   THEN last'.a1
                   ELSE show_phone(data, last'.name).text
                        \o <<";", " ">> \o last'.a1)]_vars

\* C6 witness: an update that left the same phone twice in a record, next
\* to another record.
C6_Witness ==
    /\ last.op = "add_contact" /\ last.msg = "Contact updated."
    /\ Len(data) = 2
    /\ \E j \in 1..(Len(PhonesOf(data, last.name)) - 1) :
          PhonesOf(data, last.name)[j] = last.a1
    /\ PhonesOf(data, last.name)[Len(PhonesOf(data, last.name))] = last.a1

\* What C7 says of the store after add_contact(name, phone) with a valid
\* name failed on the phone: only the creation of the record is committed.
OnlyCreationCommitted(d, e, name) ==
    /\ name \in Names(e)
    /\ name \notin Names(d) => RecordOf(e, name) = Record(name)
    /\ name \in Names(d) => RecordOf(e, name) = RecordOf(d, name)
    /\ OthersUnchanged(d, e, name)

C8_ChangeContactNoMatch ==
    [][last'.op = "change_contact"
       => /\ last'.name \notin Names(data)
              => last'.raised = "KeyError" /\ data' = data
          /\ (/\ last'.name \in Names(data)
              /\ FirstIndex(PhonesOf(data, last'.name), last'.a1) = 0)
              => /\ last'.raised = "none"
                 /\ last'.msg = "Phone number updated."
                 /\ data' = data]_vars

\* C8 witness: a successful change_contact on a record with phones, none of
\* them the old or the new phone of the call.
C8_Witness ==
    /\ last.op = "change_contact" /\ last.raised = "none"
    /\ last.msg = "Phone number updated."
    /\ PhonesOf(data, last.name) # <<>>
    /\ FirstIndex(PhonesOf(data, last.name), last.a1) = 0
    /\ FirstIndex(PhonesOf(data, last.name), last.a2) = 0

\* C9: edit_phone(old, new) on a record that holds old replaces the first
\* phone equal to old and keeps every other position.
C9_EditReplacesFirstOnly ==
    [][(/\ last'.op = "edit_phone"
        /\ FirstIndex(PhonesOf(data, last'.name), last'.a1) # 0)
       => PhonesOf(data', last'.name)
            = [PhonesOf(data, last'.name) EXCEPT
                 ![FirstIndex(PhonesOf(data, last'.name), last'.a1)] = last'.a2]]_vars

\* C10: remove_phone(value) removes the first phone equal to value and keeps
\* the others in order; without such a phone the list is unchanged.
C10_RemoveFirstOnly ==
    [][last'.op = "remove_phone"
       => LET old == PhonesOf(data, last'.name)
              i == FirstIndex(old, last'.a1)
          IN  /\ last'.raised = "none"
              /\ PhonesOf(data', last'.name)
                   = IF i = 0 THEN old
                     ELSE SubSeq(old, 1, i - 1) \o SubSeq(old, i + 1, Len(old))]_vars

\* What remains of C1 when the query returns: the entries are exactly those
\* of the due records, one each.
EntriesExactlyDueWhenReturned ==
    Queried /\ last.raised = "none" =>
        \A i \in 1..Len(data) :
            Cardinality(EntriesFor(data[i].name))
                = IF Due(data[i], last.today) THEN 1 ELSE 0

====
